---- MODULE Spec2Model ----
(***************************************************************************)
(* The curve pipeline of src/src/curve.rs:                                 *)
(*   Curve::iter() -> CurveIter -> FlatCurveIter -> SplineWindows          *)
(*                 -> Sampled<RES> -> Positions / Velocities               *)
(* Every iterator is a record holding the fields of its struct; every      *)
(* next() is an operator from the iterator to [st, ret]: the iterator      *)
(* after the call and the Option it returned.  A call of `?` that leaves   *)
(* next() early keeps the assignments made before it.                      *)
(*                                                                         *)
(* f32 values are modelled exactly: control coordinates are integers, the  *)
(* parameter t and the evaluated positions / velocities are rationals      *)
(* <<numerator, denominator>> kept in lowest terms.                        *)
(*                                                                         *)
(* The editors of src/src/engine.rs, src/src/editor.rs and                 *)
(* src/src/document.rs: `engine` is the Engine, `editor` an Editor on its  *)
(* own, and `call` the latest call made on either: its argument, what it   *)
(* was made on and its outcome, a panic being an outcome like a return.    *)
(***************************************************************************)
EXTENDS Integers, Sequences, FiniteSets, TLC

VARIABLES curve, chain, it, trace, engine, editor, call

vars == <<curve, chain, it, trace, engine, editor, call>>

(***************************************************************************)
(* Bounds of the model                                                     *)
(***************************************************************************)
\* longest point list of a curve
MaxPoints == 3
\* largest sampling resolution RES
MaxRes == 3
\* next() is called until it has returned None this many times
MaxNone == 2

\* a sampler of resolution 0 is pulled at most this many times
MaxZeroPulls == 4
\* most editors in the engine
MaxEditors == 3
\* most styles in a document
MaxStyles == 2

(***************************************************************************)
(* Option<T>                                                               *)
(***************************************************************************)
None == <<>>
Some(v) == <<v>>
IsSome(o) == o # None
Unwrap(o) == o[1]

(***************************************************************************)
(* na::Vector2<f32> over integers, and exact rationals                     *)
(***************************************************************************)
Vec(x, y) == <<x, y>>
Zeros == Vec(0, 0)
VAdd(a, b) == <<a[1] + b[1], a[2] + b[2]>>

Abs(n) == IF n < 0 THEN -n ELSE n

RECURSIVE Gcd(_, _)
Gcd(a, b) == IF b = 0 THEN a ELSE Gcd(b, a % b)

Sign(n) == IF n > 0 THEN 1 ELSE IF n < 0 THEN -1 ELSE 0

\* the rational n/d (d > 0) in lowest terms; with d = 0 the f32 values a division
\* by zero gives: <<1, 0>> is +inf, <<-1, 0>> is -inf and <<0, 0>> is NaN
Rat(n, d) ==
    IF d = 0 THEN <<Sign(n), 0>>
    ELSE LET g == Gcd(Abs(n), d) IN <<n \div g, d \div g>>
RInt(n) == <<n, 1>>
\* inf + inf = inf, inf - inf = NaN, NaN + x = NaN
RAdd(a, b) ==
    IF a[2] = 0 /\ b[2] = 0 THEN (IF a = b THEN a ELSE <<0, 0>>)
    ELSE Rat(a[1] * b[2] + b[1] * a[2], a[2] * b[2])
RMul(a, b) == Rat(a[1] * b[1], a[2] * b[2])
\* integer times rational
RScale(k, a) == Rat(k * a[1], a[2])

(***************************************************************************)
(* CurvePoint and the curves the model draws its inputs from               *)
(***************************************************************************)
CurvePoint(ci, pp, co) == [c_in |-> ci, p |-> pp, c_out |-> co]

\* make_curve_point!([x_in,y_in] (x,y) [x_out,y_out])
make_curve_point(xi, yi, x, y, xo, yo) == CurvePoint(Vec(xi, yi), Vec(x, y), Vec(xo, yo))

\* two points of the test curves, and two corner points without control offsets
PointPool ==
    { make_curve_point(0, 1, 2, 3, 4, 5),
      make_curve_point(6, 7, 8, 9, 10, 11),
      make_curve_point(0, 0, 1, 0, 0, 0),
      make_curve_point(0, 0, 1, 2, 0, 0) }

RECURSIVE SeqsOfLen(_, _)
SeqsOfLen(S, n) ==
    IF n = 0 THEN {<<>>}
    ELSE {Append(q, x) : q \in SeqsOfLen(S, n - 1), x \in S}

SeqsUpTo(S, n) == UNION {SeqsOfLen(S, k) : k \in 0..n}

Curve(points, is_closed) == [points |-> points, is_closed |-> is_closed]

Curves == {Curve(ps, c) : ps \in SeqsUpTo(PointPool, MaxPoints), c \in BOOLEAN}

(***************************************************************************)
(* CurveIter: `iter` is the slice iterator, i.e. the points not yet read   *)
(***************************************************************************)
CurveIterNew(iter, is_closed) == [iter |-> iter, first |-> None, is_closed |-> is_closed]

\* CurveIterNext with the first point never remembered
CurveIterNext_ForgetFirst(ci) ==
    IF ci.iter # <<>>
    THEN [st |-> [ci EXCEPT !.iter = Tail(ci.iter)], ret |-> Some(Head(ci.iter))]
    ELSE [st |-> [ci EXCEPT !.first = None], ret |-> ci.first]

CurveIterNext(ci) ==
    IF ci.iter # <<>>
    THEN [st  |-> [ci EXCEPT !.iter  = Tail(ci.iter),
                             !.first = IF ci.is_closed /\ ci.first = None
                                       THEN Some(Head(ci.iter)) ELSE ci.first],
          ret |-> Some(Head(ci.iter))]
    ELSE [st |-> [ci EXCEPT !.first = None], ret |-> ci.first]

\* size_hint without the closing repeat
CurveIterLen_NoClosing(ci) ==
    IF Len(ci.iter) = 0
    THEN (IF IsSome(ci.first) THEN 1 ELSE 0)
    ELSE Len(ci.iter)

CurveIterLen(ci) ==
    IF Len(ci.iter) = 0
    THEN (IF IsSome(ci.first) THEN 1 ELSE 0)
    ELSE Len(ci.iter) + (IF ci.is_closed THEN 1 ELSE 0)

(***************************************************************************)
(* FlatCurveIter                                                           *)
(***************************************************************************)
FlatCurveIterNew(iter) == [iter |-> iter, buffer |-> <<Zeros, Zeros, Zeros>>, offset |-> 3]

\* FlatStore with the anchor stored ahead of its in-control
FlatStore_AnchorFirst(f, r) ==
    IF r.ret = None
    THEN [f EXCEPT !.iter = r.st]
    ELSE [f EXCEPT !.iter   = r.st,
                   !.buffer = <<r.ret[1].p,
                                VAdd(r.ret[1].p, r.ret[1].c_in),
                                VAdd(r.ret[1].p, r.ret[1].c_out)>>,
                   !.offset = 0]

\* FlatStore with the two control points in each other's place
FlatStore_ControlsSwapped(f, r) ==
    IF r.ret = None
    THEN [f EXCEPT !.iter = r.st]
    ELSE [f EXCEPT !.iter   = r.st,
                   !.buffer = <<VAdd(r.ret[1].p, r.ret[1].c_out),
                                r.ret[1].p,
                                VAdd(r.ret[1].p, r.ret[1].c_in)>>,
                   !.offset = 0]

\* `let item = self.iter.next()?; self.buffer = [..]; self.offset = 0;` where r
\* is what self.iter.next() did; offset stays 3 when `?` leaves next()
FlatStore(f, r) ==
    IF r.ret = None
    THEN [f EXCEPT !.iter = r.st]
    ELSE [f EXCEPT !.iter   = r.st,
                   !.buffer = <<VAdd(r.ret[1].p, r.ret[1].c_in),
                                r.ret[1].p,
                                VAdd(r.ret[1].p, r.ret[1].c_out)>>,
                   !.offset = 0]

\* the `if self.offset == 3 { .. }` block
FlatRefill(f) == IF f.offset = 3 THEN FlatStore(f, CurveIterNext(f.iter)) ELSE f

\* FlatServe rewinding the buffer when it gives up
FlatServe_Rewind(g) ==
    IF g.offset = 3
    THEN [st |-> [g EXCEPT !.offset = 0], ret |-> None]
    ELSE [st |-> [g EXCEPT !.offset = g.offset + 1], ret |-> Some(g.buffer[g.offset + 1])]

\* the rest of next(), g being the iterator after the block
FlatServe(g) ==
    IF g.offset = 3
    THEN [st |-> g, ret |-> None]
    ELSE [st |-> [g EXCEPT !.offset = g.offset + 1], ret |-> Some(g.buffer[g.offset + 1])]

FlatCurveIterNext(f) == FlatServe(FlatRefill(f))

\* size_hint counting whole triples only
FlatCurveIterLen_IgnoreOffset(f) == CurveIterLen(f.iter) * 3

FlatCurveIterLen(f) == (CurveIterLen(f.iter) + 1) * 3 - f.offset

(***************************************************************************)
(* SplineWindows                                                           *)
(***************************************************************************)
SplineWindowsNew(iter) ==
    [is_first |-> TRUE, iter |-> iter, buffer |-> <<Zeros, Zeros, Zeros, Zeros>>]

\* `self.buffer[k] = r?` (k counted from 0) where r is what self.iter.next()
\* did: ok is FALSE when `?` leaves next()
WindowStore(w, k, r) ==
    IF r.ret = None
    THEN [ok |-> FALSE, w |-> [w EXCEPT !.iter = r.st]]
    ELSE [ok |-> TRUE,  w |-> [w EXCEPT !.iter = r.st, !.buffer[k + 1] = r.ret[1]]]

\* `self.buffer[k] = self.iter.next()?`
WindowFill(w, k) == WindowStore(w, k, FlatCurveIterNext(w.iter))

\* WindowSeed without the skip of the first in-control
WindowSeed_NoSkip(w) ==
    IF w.is_first
    THEN WindowFill([w EXCEPT !.is_first = FALSE], 3)
    ELSE [ok |-> TRUE, w |-> w]

\* the `if self.is_first { .. }` block
WindowSeed(w) ==
    IF w.is_first
    THEN WindowFill([w EXCEPT !.iter = FlatCurveIterNext(w.iter).st, !.is_first = FALSE], 3)
    ELSE [ok |-> TRUE, w |-> w]

\* SplineWindowsNext reading the window's first anchor from the stream again
\* instead of reusing the previous window's last anchor
SplineWindowsNext_NoOverlap(w) ==
    LET Done(s)  == IF s.ok THEN [st |-> s.w, ret |-> Some(s.w.buffer)]
                    ELSE [st |-> s.w, ret |-> None]
        Third(s) == IF s.ok THEN Done(WindowFill(s.w, 3)) ELSE [st |-> s.w, ret |-> None]
        Second(s) == IF s.ok THEN Third(WindowFill(s.w, 2)) ELSE [st |-> s.w, ret |-> None]
        First(s) == IF s.ok THEN Second(WindowFill(s.w, 1)) ELSE [st |-> s.w, ret |-> None]
        Zeroth(s) == IF s.ok THEN First(WindowFill(s.w, 0)) ELSE [st |-> s.w, ret |-> None]
    IN  Zeroth(WindowSeed(w))

\* SplineWindowsNext without `self.buffer[0] = self.buffer[3]`
SplineWindowsNext_NoCarry(w) ==
    LET Done(s)  == IF s.ok THEN [st |-> s.w, ret |-> Some(s.w.buffer)]
                    ELSE [st |-> s.w, ret |-> None]
        Third(s) == IF s.ok THEN Done(WindowFill(s.w, 3)) ELSE [st |-> s.w, ret |-> None]
        Second(s) == IF s.ok THEN Third(WindowFill(s.w, 2)) ELSE [st |-> s.w, ret |-> None]
        First(s) == IF s.ok THEN Second(WindowFill(s.w, 1)) ELSE [st |-> s.w, ret |-> None]
    IN  First(WindowSeed(w))

\* each step takes the outcome s of the statement before it
SplineWindowsNext(w) ==
    LET Done(s)  == IF s.ok THEN [st |-> s.w, ret |-> Some(s.w.buffer)]
                    ELSE [st |-> s.w, ret |-> None]
        Third(s) == IF s.ok THEN Done(WindowFill(s.w, 3)) ELSE [st |-> s.w, ret |-> None]
        Second(s) == IF s.ok THEN Third(WindowFill(s.w, 2)) ELSE [st |-> s.w, ret |-> None]
        First(s) == IF s.ok
                    THEN Second(WindowFill([s.w EXCEPT !.buffer[1] = s.w.buffer[4]], 1))
                    ELSE [st |-> s.w, ret |-> None]
    IN  First(WindowSeed(w))

\* saturating_sub(1)
SplineWindowsLen(w) ==
    IF CurveIterLen(w.iter.iter) = 0 THEN 0 ELSE CurveIterLen(w.iter.iter) - 1

(***************************************************************************)
(* Sampled<RES>: `mat` is the 2x4 matrix as its four columns               *)
(***************************************************************************)
\* Sampled::STEP = 1.0 / RES
STEP(RES) == Rat(1, RES)

SampledNew(iter, RES) ==
    [kind |-> "Sampled", RES |-> RES, iter |-> iter,
     mat |-> <<Zeros, Zeros, Zeros, Zeros>>,
     spline_index |-> 0, is_initialized |-> FALSE, segment |-> RES]

\* SampledStore with `if let Some(vecs) = r { .. }` in place of `r?`
SampledStore_IgnoresNone(a, r) ==
    IF r.ret = None
    THEN [ok |-> TRUE, s |-> [a EXCEPT !.iter = r.st]]
    ELSE [ok |-> TRUE, s |-> [a EXCEPT !.iter = r.st, !.mat = r.ret[1]]]

\* `let vecs = r?; self.mat = from_columns(&vecs);` where r is what
\* self.iter.next() did
SampledStore(a, r) ==
    IF r.ret = None
    THEN [ok |-> FALSE, s |-> [a EXCEPT !.iter = r.st]]
    ELSE [ok |-> TRUE,  s |-> [a EXCEPT !.iter = r.st, !.mat = r.ret[1]]]

\* SampledAdvance counting the first window too
SampledAdvance_AlwaysIncrement(s) ==
    IF s.segment = s.RES
    THEN SampledStore([s EXCEPT !.spline_index   = s.spline_index + 1,
                                !.is_initialized = TRUE,
                                !.segment        = 0],
                      SplineWindowsNext(s.iter))
    ELSE [ok |-> TRUE, s |-> s]

\* the `if self.segment == Self::RESOLUTION { .. }` block
SampledAdvance(s) ==
    IF s.segment = s.RES
    THEN SampledStore([s EXCEPT !.spline_index   = IF s.is_initialized
                                                   THEN s.spline_index + 1
                                                   ELSE s.spline_index,
                                !.is_initialized = TRUE,
                                !.segment        = 0],
                      SplineWindowsNext(s.iter))
    ELSE [ok |-> TRUE, s |-> s]

\* the rest of next(), a being the outcome of the block
SampledServe(a) ==
    IF ~a.ok THEN [st |-> a.s, ret |-> None]
    ELSE [st  |-> [a.s EXCEPT !.segment = a.s.segment + 1],
          ret |-> Some(<<a.s.spline_index, RScale(a.s.segment, STEP(a.s.RES))>>)]

SampledNext(s) == SampledServe(SampledAdvance(s))

SampledLen(s) == (SplineWindowsLen(s.iter) + 1) * s.RES - s.segment

(***************************************************************************)
(* SamplingHelper, Positions<I>, Velocities<I>                             *)
(***************************************************************************)
RECURSIVE SamplingNext(_)
RECURSIVE Mat(_)
RECURSIVE ItemSample(_, _)

\* SamplingHelper::mat
Mat(x) == IF x.kind = "Sampled" THEN x.mat ELSE Mat(x.iter)

\* SamplingHelper::item_sample for an item of iterator x
ItemSample(x, item) == IF x.kind = "Sampled" THEN item ELSE ItemSample(x.iter, item[1])

\* P_COEFS with the sign of one entry lost
P_COEFS_SignSlip ==
    << <<-1,  3, -3,  1>>,
       << 3,  6,  3,  0>>,
       <<-3,  3,  0,  0>>,
       << 1,  0,  0,  0>> >>

\* V_COEFS with the factor 2 of the linear term forgotten
V_COEFS_HalfLinear ==
    << <<-3,   6, -3>>,
       << 9,  -6,  3>>,
       <<-9,   6,  0>>,
       << 3,   0,  0>> >>

\* the rows of the coefficient matrices
P_COEFS ==
    << <<-1,  3, -3,  1>>,
       << 3, -6,  3,  0>>,
       <<-3,  3,  0,  0>>,
       << 1,  0,  0,  0>> >>

\* V_COEFS with the factor 3 of the constant term forgotten
V_COEFS_UnscaledStart ==
    << <<-3,   6, -1>>,
       << 9, -12,  1>>,
       <<-9,   6,  0>>,
       << 3,   0,  0>> >>

V_COEFS ==
    << <<-3,   6, -3>>,
       << 9, -12,  3>>,
       <<-9,   6,  0>>,
       << 3,   0,  0>> >>

\* G (2x4, as columns) times M (4 rows): the columns of the product
MatMul(G, M) ==
    [j \in 1..Len(M[1]) |->
        <<G[1][1] * M[1][j] + G[2][1] * M[2][j] + G[3][1] * M[3][j] + G[4][1] * M[4][j],
          G[1][2] * M[1][j] + G[2][2] * M[2][j] + G[3][2] * M[3][j] + G[4][2] * M[4][j]>>]

RECURSIVE DotRow(_, _, _, _)
\* sum over j <= n of C[j][k] * T[j]
DotRow(C, T, k, n) ==
    IF n = 0 THEN RInt(0)
    ELSE RAdd(DotRow(C, T, k, n - 1), RScale(C[n][k], T[n]))

\* C (2xn, as columns) times the column vector T of rationals
MatVec(C, T) == <<DotRow(C, T, 1, Len(C)), DotRow(C, T, 2, Len(C))>>

\* the powers of t in ascending order
T4_Ascending(t) == <<RInt(1), t, RMul(t, t), RMul(RMul(t, t), t)>>

\* Vector4::new(t*t*t, t*t, t, 1.0) and Vector3::new(t*t, t, 1.0)
T4(t) == <<RMul(RMul(t, t), t), RMul(t, t), t, RInt(1)>>
T3(t) == <<RMul(t, t), t, RInt(1)>>

PositionsNew(iter) == [kind |-> "Positions", iter |-> iter]

\* PositionsPair reading mat() before the sample was pulled
PositionsPair_StaleMat(p, r) ==
    IF r.ret = None
    THEN [st |-> [p EXCEPT !.iter = r.st], ret |-> None]
    ELSE [st  |-> [p EXCEPT !.iter = r.st],
          ret |-> Some(<<r.ret[1],
                         MatVec(MatMul(Mat(p), P_COEFS),
                                T4(ItemSample(p.iter, r.ret[1])[2]))>>)]

\* `let item = r?; ..; Some((item, self.mat()*P_COEFS*T))` where r is what
\* self.iter.next() did: mat() is read from the iterator after that call
PositionsPair(p, r) ==
    IF r.ret = None
    THEN [st |-> [p EXCEPT !.iter = r.st], ret |-> None]
    ELSE [st  |-> [p EXCEPT !.iter = r.st],
          ret |-> Some(<<r.ret[1],
                         MatVec(MatMul(Mat(r.st), P_COEFS),
                                T4(ItemSample(p.iter, r.ret[1])[2]))>>)]

PositionsNext(p) == PositionsPair(p, SamplingNext(p.iter))

VelocitiesNew(iter) == [kind |-> "Velocities", iter |-> iter]

\* the velocity or, when it is the zero vector, nothing
NonZeroVelocity(item, v) ==
    IF v = <<RInt(0), RInt(0)>> THEN None ELSE Some(<<item, v>>)

\* VelocitiesPair treating a zero velocity as the end
VelocitiesPair_ZeroIsNone(p, r) ==
    IF r.ret = None
    THEN [st |-> [p EXCEPT !.iter = r.st], ret |-> None]
    ELSE [st  |-> [p EXCEPT !.iter = r.st],
          ret |-> NonZeroVelocity(r.ret[1],
                                  MatVec(MatMul(Mat(r.st), V_COEFS),
                                         T3(ItemSample(p.iter, r.ret[1])[2])))]

\* `let item = r?; ..; Some((item, self.mat()*V_COEFS*T))`
VelocitiesPair(p, r) ==
    IF r.ret = None
    THEN [st |-> [p EXCEPT !.iter = r.st], ret |-> None]
    ELSE [st  |-> [p EXCEPT !.iter = r.st],
          ret |-> Some(<<r.ret[1],
                         MatVec(MatMul(Mat(r.st), V_COEFS),
                                T3(ItemSample(p.iter, r.ret[1])[2]))>>)]

VelocitiesNext(p) == VelocitiesPair(p, SamplingNext(p.iter))

\* next() of an iterator that implements SamplingHelper
SamplingNext(x) ==
    CASE x.kind = "Sampled"    -> SampledNext(x)
      [] x.kind = "Positions"  -> PositionsNext(x)
      [] x.kind = "Velocities" -> VelocitiesNext(x)

\* size_hint of Positions / Velocities forwards to the wrapped iterator
RECURSIVE SamplingLen(_)
SamplingLen(x) == IF x.kind = "Sampled" THEN SampledLen(x) ELSE SamplingLen(x.iter)

(***************************************************************************)
(* Curve                                                                   *)
(***************************************************************************)
CurveIter(c) == CurveIterNew(c.points, c.is_closed)

sampled_iter(c, RES) == SampledNew(SplineWindowsNew(FlatCurveIterNew(CurveIter(c))), RES)

\* the iterator pos_vel_iter maps
pos_vel_iter(c, RES) == VelocitiesNew(PositionsNew(sampled_iter(c, RES)))

\* the closure with position and velocity in each other's place
PosVelMap_Swapped(r) ==
    IF r.ret = None THEN r
    ELSE [st  |-> r.st,
          ret |-> Some(<<r.ret[1][1][1][1], r.ret[1][1][1][2], r.ret[1][2], r.ret[1][1][2]>>)]

\* the closure |(((i, t), p), v)| (i, t, p, v) applied by Option::map
PosVelMap(r) ==
    IF r.ret = None THEN r
    ELSE [st  |-> r.st,
          ret |-> Some(<<r.ret[1][1][1][1], r.ret[1][1][1][2], r.ret[1][1][2], r.ret[1][2]>>)]

\* Map<Velocities<Positions<Sampled>>, _>::next
PosVelNext(m) == PosVelMap(VelocitiesNext(m))

(***************************************************************************)
(* Style, MaybeNew<Style>, Document, Editor                                *)
(***************************************************************************)
\* Style::default() and the styles a user has made
DefaultStyle == "default"
Styles == {DefaultStyle, "outline"}

\* MaybeNew::New(style) and MaybeNew::Existing(weak); the weak reference is
\* the allocation it points to
New(style) == [kind |-> "New", style |-> style]
Existing(weak) == [kind |-> "Existing", weak |-> weak]

\* a title: how wide MeasureText finds it, and whether it holds a NUL byte
Title(width, nul) == [width |-> width, nul |-> nul]
Titles == {Title(30, FALSE), Title(90, FALSE), Title(30, TRUE)}

\* Document::new; `allocated` counts the Arc allocations made for its styles
Document_new(title) == [title |-> title, styles |-> <<>>, allocated |-> 0]

\* Editor::new
Editor_new(document, current_style) ==
    [document |-> document, current_style |-> current_style]

\* Document::create_style giving the new style the allocation of the first
Document_create_style_Shared(d, style) ==
    [st  |-> [d EXCEPT !.styles    = Append(@, [arc |-> 1, style |-> style]),
                       !.allocated = @ + 1],
     ret |-> 1]

\* Document::create_style: the document after the push and the Arc pushed
Document_create_style(d, style) ==
    [st  |-> [d EXCEPT !.styles    = Append(@, [arc |-> d.allocated + 1, style |-> style]),
                       !.allocated = @ + 1],
     ret |-> d.allocated + 1]

\* `self.current_style = MaybeNew::Existing(Arc::downgrade(r))`, r being what
\* create_style did
StoreExisting(e, r) ==
    [st      |-> [e EXCEPT !.document = r.st, !.current_style = Existing(r.ret)],
     outcome |-> "ok",
     ret     |-> r.ret]

\* Editor::upgrade_current_style; mem::take leaves New(Style::default()) behind,
\* which an editor whose style was Existing is left with when the let-else fails
upgrade_current_style(e) ==
    IF e.current_style.kind = "New"
    THEN StoreExisting(e, Document_create_style(e.document, e.current_style.style))
    ELSE [st      |-> [e EXCEPT !.current_style = New(DefaultStyle)],
          outcome |-> "panic",
          ret     |-> None]

(***************************************************************************)
(* Engine                                                                  *)
(***************************************************************************)
\* EngineTheme::default_theme().font_size and the tab metrics
FontSize == 10
TAB_PADDING_H == 5
TAB_PADDING_V == 3
TAB_MAX_WIDTH == 100

\* num.checked_sub(1)
CheckedSubOne(num) == IF num = 0 THEN None ELSE Some(num - 1)

\* Vec::remove
Remove(q, index) == SubSeq(q, 1, index) \o SubSeq(q, index + 2, Len(q))

Engine_new == [editors |-> <<>>, focused_editor |-> None]

\* create_editor focusing the new editor only when nothing is focused
create_editor_KeepsFocus(e, new) ==
    [st      |-> [editors        |-> Append(e.editors, new),
                  focused_editor |-> IF e.focused_editor = None
                                     THEN CheckedSubOne(Len(e.editors) + 1)
                                     ELSE e.focused_editor],
     outcome |-> "ok"]

create_editor(e, new) ==
    [st      |-> [editors        |-> Append(e.editors, new),
                  focused_editor |-> CheckedSubOne(Len(e.editors) + 1)],
     outcome |-> "ok"]

focus_editor(e, idx) ==
    [st |-> [e EXCEPT !.focused_editor = Some(idx)], outcome |-> "ok"]

unfocus_editor(e) ==
    [st |-> [e EXCEPT !.focused_editor = None], outcome |-> "ok"]

\* `self.focused_editor.map(|idx| &self.editors[idx as usize])`
focused_editor(e) ==
    CASE e.focused_editor = None ->
             [st |-> e, outcome |-> "ok", ret |-> None]
      [] e.focused_editor # None /\ Unwrap(e.focused_editor) < Len(e.editors) ->
             [st |-> e, outcome |-> "ok",
              ret |-> Some(e.editors[Unwrap(e.focused_editor) + 1])]
      [] OTHER ->
             [st |-> e, outcome |-> "panic", ret |-> None]

\* FocusAfterRemove without the `focused_editor >= num_editors` branch
FocusAfterRemove_NoClamp(focus, index, num_editors) ==
    IF focus = None THEN None
    ELSE IF index < Unwrap(focus) THEN Some(Unwrap(focus) - 1)
    ELSE focus

\* the focus after editors.remove(index) left num_editors editors
FocusAfterRemove(focus, index, num_editors) ==
    IF focus = None THEN None
    ELSE IF Unwrap(focus) >= num_editors THEN CheckedSubOne(num_editors)
    ELSE IF index < Unwrap(focus) THEN Some(Unwrap(focus) - 1)
    ELSE focus

\* remove_editor with `>` where the code has `>=`
remove_editor_OffByOne(e, index) ==
    IF index >= Len(e.editors)
    THEN [st |-> e, outcome |-> "panic", ret |-> None]
    ELSE [st      |-> [editors        |-> Remove(e.editors, index),
                       focused_editor |->
                           IF e.focused_editor = None THEN None
                           ELSE IF Unwrap(e.focused_editor) > Len(e.editors) - 1
                           THEN CheckedSubOne(Len(e.editors) - 1)
                           ELSE IF index < Unwrap(e.focused_editor)
                           THEN Some(Unwrap(e.focused_editor) - 1)
                           ELSE e.focused_editor],
          outcome |-> "ok",
          ret     |-> Some(e.editors[index + 1])]

\* remove_editor moving the focus before it removes
remove_editor_FocusFirst(e, index) ==
    IF index >= Len(e.editors)
    THEN [st |-> [e EXCEPT !.focused_editor =
                      FocusAfterRemove(@, index, Len(e.editors) - 1)],
          outcome |-> "panic", ret |-> None]
    ELSE [st      |-> [editors        |-> Remove(e.editors, index),
                       focused_editor |-> FocusAfterRemove(e.focused_editor, index,
                                                           Len(e.editors) - 1)],
          outcome |-> "ok",
          ret     |-> Some(e.editors[index + 1])]

\* remove_editor; Vec::remove panics on an index out of bounds before anything
\* is changed
remove_editor(e, index) ==
    IF index >= Len(e.editors)
    THEN [st |-> e, outcome |-> "panic", ret |-> None]
    ELSE [st      |-> [editors        |-> Remove(e.editors, index),
                       focused_editor |-> FocusAfterRemove(e.focused_editor, index,
                                                           Len(e.editors) - 1)],
          outcome |-> "ok",
          ret     |-> Some(e.editors[index + 1])]

(***************************************************************************)
(* EngineTabIter; a Rectangle is a record x, y, width, height              *)
(***************************************************************************)
Rectangle_new(x, y, width, height) == [x |-> x, y |-> y, width |-> width, height |-> height]

Min(a, b) == IF a <= b THEN a ELSE b

\* what next() hands to its caller when it panics
Panic == <<"panic", "unwind">>

EngineTabIter_new(iter, font_size) ==
    [iter      |-> iter,
     font_size |-> font_size,
     rect      |-> Rectangle_new(0, 0, 0, font_size + TAB_PADDING_V * 2),
     data      |-> [kind  |-> "Editor",
                    index |-> 0,
                    close_button_rect |->
                        Rectangle_new(0 - TAB_PADDING_H - font_size, TAB_PADDING_V,
                                      font_size, font_size)]]

\* Engine::tab_iter
tab_iter(e) == EngineTabIter_new(e.editors, FontSize)

\* the Some(editor) branch once the title has been measured: w is the tab's width
EditorTab(ti, ed, w) ==
    [st  |-> [ti EXCEPT !.rect.width = w,
                        !.rect.x = @ + w + 1,
                        !.data.index = @ + 1,
                        !.data.close_button_rect.x = @ + w + 1],
     ret |-> Some([rect |-> [ti.rect EXCEPT !.width = w],
                   data |-> [kind  |-> "Editor",
                             index |-> ti.data.index,
                             editor |-> ed,
                             close_button_rect |->
                                 [ti.data.close_button_rect EXCEPT !.x = @ + w]]])]

\* the Some(editor) branch: the let-else, CString::from_str(..).unwrap(), and the rest
EditorBranch(ti, ed) ==
    IF ti.data.kind # "Editor" \/ ed.document.title.nul
    THEN [st |-> ti, ret |-> Panic]
    ELSE EditorTab(ti, ed,
                   Min(ed.document.title.width + TAB_PADDING_H * 4 + ti.font_size,
                       TAB_MAX_WIDTH))

\* the else branch: the New tab, then the Open tab, then None
ButtonBranch(ti) ==
    IF ti.data.kind = "Open"
    THEN [st |-> ti, ret |-> None]
    ELSE [st  |-> [ti EXCEPT !.data = [kind |-> IF ti.data.kind = "Editor"
                                                THEN "New" ELSE "Open"],
                            !.rect.width = ti.rect.height,
                            !.rect.x = @ + ti.rect.height + 1],
          ret |-> Some([rect |-> [ti.rect EXCEPT !.width = ti.rect.height],
                        data |-> [kind |-> IF ti.data.kind = "Editor"
                                           THEN "New" ELSE "Open"]])]

\* EngineTabIter::next
EngineTabIterNext(ti) ==
    IF ti.iter # <<>>
    THEN EditorBranch([ti EXCEPT !.iter = Tail(@)], Head(ti.iter))
    ELSE ButtonBranch(ti)

\* Curve::from with the last two corners in each other's place
Curve_from_Zigzag(rect) ==
    LET left   == rect.x
        top    == rect.y
        right  == rect.x + rect.width
        bottom == rect.y + rect.height
    IN  Curve(<<CurvePoint(Zeros, Vec(left, top), Zeros),
                CurvePoint(Zeros, Vec(right, top), Zeros),
                CurvePoint(Zeros, Vec(left, bottom), Zeros),
                CurvePoint(Zeros, Vec(right, bottom), Zeros)>>, TRUE)

\* impl From<Rectangle> for Curve
Curve_from(rect) ==
    LET left   == rect.x
        top    == rect.y
        right  == rect.x + rect.width
        bottom == rect.y + rect.height
    IN  Curve(<<CurvePoint(Zeros, Vec(left, top), Zeros),
                CurvePoint(Zeros, Vec(right, top), Zeros),
                CurvePoint(Zeros, Vec(right, bottom), Zeros),
                CurvePoint(Zeros, Vec(left, bottom), Zeros)>>, TRUE)

(***************************************************************************)
(* The state machine: one iterator chain is built over a curve and its     *)
(* outermost iterator is pulled; `trace` records what each next() returned *)
(***************************************************************************)
SamplingChains ==
    {"sampled", "with_positions", "with_velocities", "with_velocities_with_positions",
     "pos_vel_iter"}

Chains == {"iter", "spline", "spline_windows"} \cup SamplingChains

Build(c, ch, RES) ==
    CASE ch = "iter"            -> CurveIter(c)
      [] ch = "spline"          -> FlatCurveIterNew(CurveIter(c))
      [] ch = "spline_windows"  -> SplineWindowsNew(FlatCurveIterNew(CurveIter(c)))
      [] ch = "sampled"         -> sampled_iter(c, RES)
      [] ch = "with_positions"  -> PositionsNew(sampled_iter(c, RES))
      [] ch = "with_velocities" -> VelocitiesNew(sampled_iter(c, RES))
      [] ch = "with_velocities_with_positions" ->
             PositionsNew(VelocitiesNew(sampled_iter(c, RES)))
      [] ch = "pos_vel_iter"    -> pos_vel_iter(c, RES)

\* the Sampled iterator inside the chain
RECURSIVE SampledOf(_)
SampledOf(x) == IF x.kind = "Sampled" THEN x ELSE SampledOf(x.iter)

\* no call has been made
NoCall == [op |-> "none"]

\* the engine just constructed and an editor on an empty document
NoEditors ==
    /\ engine = Engine_new
    /\ editor = Editor_new(Document_new(Title(30, FALSE)), New(DefaultStyle))
    /\ call = NoCall

Init ==
    /\ curve \in Curves
    /\ chain \in Chains
    /\ \E RES \in 1..MaxRes :
          /\ chain \notin SamplingChains => RES = 1
          /\ it = Build(curve, chain, RES)
    /\ trace = <<>>
    /\ NoEditors

NoneCount == Cardinality({k \in DOMAIN trace : trace[k] = None})

\* the chain was built with sampled::<0>()
ZeroRes == chain \in SamplingChains /\ SampledOf(it).RES = 0

\* the caller goes on pulling until it has seen MaxNone times None, and gives
\* up on a sampler of resolution 0 after MaxZeroPulls calls
CanPull ==
    /\ NoneCount < MaxNone
    /\ ZeroRes => Len(trace) < MaxZeroPulls

\* Pull with an iterator that takes the points out of the curve as it goes
Pull_Drains(r) ==
    /\ it' = r.st
    /\ trace' = Append(trace, r.ret)
    /\ curve' = [curve EXCEPT !.points = IF r.ret = None THEN @ ELSE SubSeq(@, 2, Len(@))]
    /\ UNCHANGED <<chain, engine, editor, call>>

Pull(r) ==
    /\ it' = r.st
    /\ trace' = Append(trace, r.ret)
    /\ UNCHANGED <<curve, chain, engine, editor, call>>

NextCurveIter     == chain = "iter"            /\ CanPull /\ Pull(CurveIterNext(it))
NextFlatCurveIter == chain = "spline"          /\ CanPull /\ Pull(FlatCurveIterNext(it))
NextSplineWindows == chain = "spline_windows"  /\ CanPull /\ Pull(SplineWindowsNext(it))
NextSampled       == chain = "sampled"         /\ CanPull /\ Pull(SampledNext(it))
NextPositions     == chain = "with_positions"  /\ CanPull /\ Pull(PositionsNext(it))
NextVelocities    == chain = "with_velocities" /\ CanPull /\ Pull(VelocitiesNext(it))
NextPosVel        == chain = "pos_vel_iter"    /\ CanPull /\ Pull(PosVelNext(it))
NextVelocitiesPositions ==
    chain = "with_velocities_with_positions" /\ CanPull /\ Pull(PositionsNext(it))

Next ==
    \/ NextCurveIter
    \/ NextFlatCurveIter
    \/ NextSplineWindows
    \/ NextSampled
    \/ NextPositions
    \/ NextVelocities
    \/ NextPosVel
    \/ NextVelocitiesPositions

Spec == Init /\ [][Next]_vars

\* the sampling chains built with RES = 0
InitZeroRes ==
    /\ curve \in Curves
    /\ chain \in SamplingChains
    /\ it = Build(curve, chain, 0)
    /\ trace = <<>>
    /\ NoEditors

NextZeroRes ==
    \/ NextSampled
    \/ NextPositions
    \/ NextVelocities
    \/ NextPosVel
    \/ NextVelocitiesPositions

SpecZeroRes == InitZeroRes /\ [][NextZeroRes]_vars

\* the rectangles curves are made from: with and without extent, width and
\* height of either sign
Rectangles ==
    [x : {0, 1}, y : {0, 2}, width : {-1, 0, 3}, height : {0, 2}]

\* every chain over Curve::from(rect)
InitRectangle ==
    /\ \E rect \in Rectangles : curve = Curve_from(rect)
    /\ chain \in Chains
    /\ \E RES \in 1..MaxRes :
          /\ chain \notin SamplingChains => RES = 1
          /\ it = Build(curve, chain, RES)
    /\ trace = <<>>
    /\ NoEditors

SpecRectangle == InitRectangle /\ [][Next]_vars

(***************************************************************************)
(* The engine: editors are created, focused and removed                    *)
(***************************************************************************)
\* no curve is being traversed
NoIterator ==
    /\ curve = Curve(<<>>, FALSE)
    /\ chain = "none"
    /\ it = None
    /\ trace = <<>>

\* the editors handed to create_editor
EditorPool == {Editor_new(Document_new(t), New(DefaultStyle)) : t \in Titles}

InitEngine ==
    /\ NoIterator
    /\ NoEditors

\* the call `op(arg)` on the engine did r; `before` is the engine it was made on
CallEngine(op, arg, r) ==
    /\ engine' = r.st
    /\ call' = [op |-> op, arg |-> arg, outcome |-> r.outcome, before |-> engine]
    /\ UNCHANGED <<curve, chain, it, trace, editor>>

\* the methods take &mut self (focused_editor: &self): nothing borrows the engine
CreateEditor ==
    /\ chain = "none"
    /\ Len(engine.editors) < MaxEditors
    /\ \E new \in EditorPool :
          CallEngine("create_editor", new.document.title, create_editor(engine, new))

FocusEditor ==
    /\ chain = "none"
    /\ \E idx \in 0..MaxEditors :
          CallEngine("focus_editor", idx, focus_editor(engine, idx))

UnfocusEditor ==
    /\ chain = "none"
    /\ CallEngine("unfocus_editor", 0, unfocus_editor(engine))

FocusedEditor ==
    /\ chain = "none"
    /\ CallEngine("focused_editor", 0, focused_editor(engine))

RemoveEditor ==
    /\ chain = "none"
    /\ \E index \in 0..MaxEditors :
          CallEngine("remove_editor", index, remove_editor(engine, index))

NextEngine ==
    \/ CreateEditor
    \/ FocusEditor
    \/ UnfocusEditor
    \/ FocusedEditor
    \/ RemoveEditor

SpecEngine == InitEngine /\ [][NextEngine]_vars

\* focus_editor(idx) by a caller that keeps idx in bounds
FocusEditorInBounds ==
    /\ chain = "none"
    /\ \E idx \in 0..(Len(engine.editors) - 1) :
          CallEngine("focus_editor", idx, focus_editor(engine, idx))

\* remove_editor(index) by a caller that keeps index in bounds
RemoveEditorInBounds ==
    /\ chain = "none"
    /\ \E index \in 0..(Len(engine.editors) - 1) :
          CallEngine("remove_editor", index, remove_editor(engine, index))

NextInBounds ==
    \/ CreateEditor
    \/ FocusEditorInBounds
    \/ UnfocusEditor
    \/ FocusedEditor
    \/ RemoveEditorInBounds

\* the engine in the hands of a caller that passes indices in bounds only
SpecInBounds == InitEngine /\ [][NextInBounds]_vars

(***************************************************************************)
(* The tabs of an engine are iterated                                      *)
(***************************************************************************)
InitTabs ==
    /\ curve = Curve(<<>>, FALSE)
    /\ chain = "tab_iter"
    /\ \E eds \in SeqsUpTo(EditorPool, MaxEditors) :
          \E focus \in {None} \cup {Some(k) : k \in 0..(Len(eds) - 1)} :
              engine = [editors |-> eds, focused_editor |-> focus]
    /\ it = tab_iter(engine)
    /\ trace = <<>>
    /\ editor = Editor_new(Document_new(Title(30, FALSE)), New(DefaultStyle))
    /\ call = NoCall

\* next() is not called again on an iterator that panicked
NextTab ==
    /\ chain = "tab_iter" /\ CanPull
    /\ \A k \in DOMAIN trace : trace[k] # Panic
    /\ Pull(EngineTabIterNext(it))

SpecTabs == InitTabs /\ [][NextTab]_vars

(***************************************************************************)
(* An editor's current style is set and upgraded                           *)
(***************************************************************************)
InitEditor ==
    /\ NoIterator
    /\ engine = Engine_new
    /\ \E t \in Titles, s \in Styles : editor = Editor_new(Document_new(t), New(s))
    /\ call = NoCall

\* the call `op(arg)` on the editor did r; `before` is the editor it was made on
CallEditor(op, arg, r) ==
    /\ editor' = r.st
    /\ call' = [op |-> op, arg |-> arg, outcome |-> r.outcome, ret |-> r.ret,
                before |-> editor]
    /\ UNCHANGED <<curve, chain, it, trace, engine>>

UpgradeCurrentStyle ==
    /\ chain = "none"
    /\ editor.current_style.kind = "New" => Len(editor.document.styles) < MaxStyles
    /\ CallEditor("upgrade_current_style", 0, upgrade_current_style(editor))

\* `editor.current_style = ..`: a new style, or one of the document's
SetCurrentStyle ==
    /\ chain = "none"
    /\ \E ms \in {New(s) : s \in Styles}
                  \cup {Existing(editor.document.styles[k].arc) :
                           k \in DOMAIN editor.document.styles} :
          CallEditor("set_current_style", ms,
                     [st |-> [editor EXCEPT !.current_style = ms],
                      outcome |-> "ok", ret |-> None])

NextEditor ==
    \/ UpgradeCurrentStyle
    \/ SetCurrentStyle

SpecEditor == InitEditor /\ [][NextEditor]_vars

(***************************************************************************)
(* What the properties speak of                                            *)
(***************************************************************************)
\* index of the first None in the trace, Len(trace) + 1 when there is none
FirstNone ==
    LET nones == {k \in DOMAIN trace : trace[k] = None}
    IN  IF nones = {} THEN Len(trace) + 1
        ELSE CHOOSE k \in nones : \A j \in nones : k <= j

\* the elements yielded up to the first None
Yielded == [k \in 1..(FirstNone - 1) |-> Unwrap(trace[k])]

Exhausted == NoneCount >= 1

n_points == Len(curve.points)

\* the topology sequence q_0 .. q_(L-1), here Topology[1] .. Topology[L]
Topology ==
    IF curve.is_closed /\ n_points >= 1
    THEN Append(curve.points, curve.points[1])
    ELSE curve.points

TopoLen == Len(Topology)

\* W, the number of windows
WindowCount == IF TopoLen < 2 THEN 0 ELSE TopoLen - 1

\* window k (k = 0 .. W-1)
Window(k) ==
    LET a == Topology[k + 1]
        b == Topology[k + 2]
    IN  <<a.p, VAdd(a.p, a.c_out), VAdd(b.p, b.c_in), b.p>>

\* Y is a prefix of the sequence E, and all of E once the iterator has
\* returned None
YieldsExactly(Y, E) ==
    /\ Len(Y) <= Len(E)
    /\ \A k \in 1..Len(Y) : Y[k] = E[k]
    /\ Exhausted => Len(Y) = Len(E)

(***************************************************************************)
(* C1: Curve::iter() yields the n stored points in order; a closed curve   *)
(* with n >= 1 points yields them followed by one repeat of the first      *)
(* point (n+1 elements); a closed curve without points yields nothing.     *)
(***************************************************************************)
C1_IterYieldsTopology ==
    chain = "iter" =>
        LET len == IF curve.is_closed /\ n_points >= 1 THEN n_points + 1 ELSE n_points
            E   == [k \in 1..len |-> IF k <= n_points THEN curve.points[k]
                                     ELSE curve.points[1]]
        IN  YieldsExactly(Yielded, E)

\* a closed curve of three points whose ends differ, pulled to the end
C1_Witness ==
    /\ chain = "iter" /\ curve.is_closed /\ n_points = 3 /\ Exhausted
    /\ curve.points[1].p # curve.points[3].p
    /\ Len(Yielded) = 4 /\ Yielded[4] = curve.points[1]

(***************************************************************************)
(* C2: spline() emits for each topology element q, in order, the three     *)
(* vectors q.p + q.c_in, q.p, q.p + q.c_out: 3 x L elements in all.        *)
(***************************************************************************)
C2_FlatTriples ==
    chain = "spline" =>
        LET E == [k \in 1..(3 * TopoLen) |->
                     LET q == Topology[((k - 1) \div 3) + 1]
                     IN  CASE (k - 1) % 3 = 0 -> VAdd(q.p, q.c_in)
                           [] (k - 1) % 3 = 1 -> q.p
                           [] (k - 1) % 3 = 2 -> VAdd(q.p, q.c_out)]
        IN  /\ YieldsExactly(Yielded, E)
            /\ ~curve.is_closed => TopoLen = n_points
            /\ curve.is_closed /\ n_points >= 1 => TopoLen = n_points + 1

\* the flat stream of a closed curve of two points with non-zero offsets, complete
C2_Witness ==
    /\ chain = "spline" /\ curve.is_closed /\ n_points = 2 /\ Exhausted
    /\ Len(Yielded) = 9
    /\ \A k \in 1..2 : curve.points[k].c_in # Zeros /\ curve.points[k].c_out # Zeros

(***************************************************************************)
(* C3: the k-th window of spline_windows() is                              *)
(* [q_k.p, q_k.p + q_k.c_out, q_(k+1).p + q_(k+1).c_in, q_(k+1).p]; the    *)
(* last window of a closed curve runs from the last stored point to the    *)
(* first one and uses the first point's c_in.                              *)
(***************************************************************************)
C3_WindowContents ==
    chain = "spline_windows" =>
        /\ \A k \in 1..Len(Yielded) :
              /\ k + 1 <= TopoLen
              /\ Yielded[k] = <<Topology[k].p,
                                VAdd(Topology[k].p, Topology[k].c_out),
                                VAdd(Topology[k + 1].p, Topology[k + 1].c_in),
                                Topology[k + 1].p>>
        /\ curve.is_closed /\ n_points >= 1 /\ Len(Yielded) = n_points =>
              Yielded[n_points] = <<curve.points[n_points].p,
                                    VAdd(curve.points[n_points].p, curve.points[n_points].c_out),
                                    VAdd(curve.points[1].p, curve.points[1].c_in),
                                    curve.points[1].p>>

\* the closing window of a closed curve whose first point has a non-zero c_in
C3_Witness ==
    /\ chain = "spline_windows" /\ curve.is_closed /\ n_points = 3
    /\ Len(Yielded) = 3
    /\ curve.points[1].c_in # Zeros
    /\ curve.points[1].p # curve.points[3].p

(***************************************************************************)
(* C4: spline_windows() yields topology length - 1 windows (n-1 for an     *)
(* open curve, n for a closed curve of n >= 1 points) and none when the    *)
(* topology has fewer than 2 elements.                                     *)
(***************************************************************************)
C4_WindowCount ==
    chain = "spline_windows" =>
        LET W == IF curve.is_closed
                 THEN n_points
                 ELSE (IF n_points >= 1 THEN n_points - 1 ELSE 0)
        IN  /\ Len(Yielded) <= W
            /\ Exhausted => Len(Yielded) = W
            /\ W = (IF TopoLen < 2 THEN 0 ELSE TopoLen - 1)

\* an open curve of three points has given its two windows and then None
C4_Witness ==
    /\ chain = "spline_windows" /\ ~curve.is_closed /\ n_points = 3
    /\ Exhausted /\ Len(Yielded) = 2

(***************************************************************************)
(* Samples: descriptor, position and velocity of an item of the chain      *)
(***************************************************************************)
R == SampledOf(it).RES

DescOf(item) ==
    CASE chain = "sampled"      -> item
      [] chain = "pos_vel_iter" -> <<item[1], item[2]>>
      [] chain = "with_velocities_with_positions" -> item[1][1]
      [] OTHER                  -> item[1]

HasPos == chain \in {"with_positions", "with_velocities_with_positions", "pos_vel_iter"}
HasVel == chain \in {"with_velocities", "with_velocities_with_positions", "pos_vel_iter"}

PosOf(item) == IF chain = "pos_vel_iter" THEN item[3] ELSE item[2]
VelOf(item) ==
    CASE chain = "pos_vel_iter" -> item[4]
      [] chain = "with_velocities_with_positions" -> item[1][2]
      [] OTHER -> item[2]

\* the sample the latest next() returned, if it returned one
Returned == trace # <<>> /\ trace[Len(trace)] # None
Latest == Unwrap(trace[Len(trace)])

\* k with t = k / R
StepOf(t) == t[1] * (R \div t[2])

\* the rational q equals num / den
RatIs(q, num, den) == q[1] * den = num * q[2]

\* R^3 times the Bezier point of window G at k/R, coordinate c
BezierScaled(G, k, c) ==
    LET u == R - k
    IN  u * u * u * G[1][c] + 3 * k * u * u * G[2][c]
          + 3 * k * k * u * G[3][c] + k * k * k * G[4][c]

\* R^2 times the derivative of the Bezier polynomial of window G at k/R
DerivativeScaled(G, k, c) ==
    LET u == R - k
    IN  3 * u * u * (G[2][c] - G[1][c]) + 6 * k * u * (G[3][c] - G[2][c])
          + 3 * k * k * (G[4][c] - G[3][c])

(***************************************************************************)
(* C5: pulled until its first None, sampled::<R>() yields W x R            *)
(* descriptors, the j-th (from 0) being (j div R, (j mod R)/R): the        *)
(* segment index starts at 0, never decreases, grows by 1 every R samples  *)
(* and covers 0..W-1; t runs through 0/R .. (R-1)/R and never reaches 1.   *)
(***************************************************************************)
C5_SampleDescriptors ==
    chain = "sampled" =>
        LET E == [k \in 1..(WindowCount * R) |-> <<(k - 1) \div R, Rat((k - 1) % R, R)>>]
        IN  /\ YieldsExactly(Yielded, E)
            /\ \A k \in 1..Len(Yielded) :
                  /\ Yielded[k][1] \in 0..(WindowCount - 1)
                  /\ Yielded[k][2][1] < Yielded[k][2][2]
                  /\ k > 1 => Yielded[k][1] - Yielded[k - 1][1] =
                                  (IF (k - 1) % R = 0 THEN 1 ELSE 0)

\* three windows sampled three times each, up to the first None
C5_Witness ==
    /\ chain = "sampled" /\ R = 3 /\ WindowCount = 3 /\ Exhausted
    /\ Len(Yielded) = 9 /\ Yielded[9] = <<2, Rat(2, 3)>>

(***************************************************************************)
(* C6: once next() of the sampling stage has returned None it returns None *)
(* ever after, and no descriptor with segment_index >= W is ever emitted.  *)
(***************************************************************************)
C6_NoneIsTerminal ==
    chain \in SamplingChains =>
        /\ \A j, k \in DOMAIN trace : j < k /\ trace[j] = None => trace[k] = None
        /\ \A k \in DOMAIN trace :
              trace[k] # None => DescOf(Unwrap(trace[k]))[1] < WindowCount

(***************************************************************************)
(* C7: whenever next() of the sampling stage returns Some((i, t)), mat()   *)
(* holds the four control vectors of window i.                             *)
(***************************************************************************)
C7_MatIsWindowOfSample ==
    chain \in SamplingChains /\ Returned =>
        LET i == DescOf(Latest)[1]
        IN  /\ i < WindowCount
            /\ Mat(it) = Window(i)

(***************************************************************************)
(* C8: the position of a sample at t = k/R (0 <= k < R) of the window      *)
(* [p0, c1, c2, p3] is (1-t)^3 p0 + 3t(1-t)^2 c1 + 3t^2(1-t) c2 + t^3 p3,  *)
(* here with both sides scaled by R^3.                                     *)
(***************************************************************************)
C8_PositionIsBezier ==
    HasPos /\ Returned =>
        LET d   == DescOf(Latest)
            k   == StepOf(d[2])
            pos == PosOf(Latest)
        IN  /\ k \in 0..(R - 1)
            /\ RatIs(d[2], k, R)
            /\ \A c \in 1..2 :
                  /\ RatIs(pos[c], BezierScaled(Mat(it), k, c), R * R * R)
                  /\ d[1] < WindowCount =>
                        RatIs(pos[c], BezierScaled(Window(d[1]), k, c), R * R * R)

\* a sample strictly inside the second window, whose control offsets are not zero
C8_Witness ==
    /\ HasPos /\ Returned /\ R = 3
    /\ DescOf(Latest) = <<1, Rat(2, 3)>>
    /\ WindowCount >= 2
    /\ Window(1)[2] # Window(1)[1] /\ Window(1)[3] # Window(1)[4]
    /\ PosOf(Latest) \notin {<<RInt(Window(1)[1][1]), RInt(Window(1)[1][2])>>,
                             <<RInt(Window(1)[4][1]), RInt(Window(1)[4][2])>>}

(***************************************************************************)
(* C9: the velocity of a sample at t = k/R of the window [p0, c1, c2, p3]  *)
(* is the derivative of the position polynomial,                           *)
(* 3(1-t)^2 (c1-p0) + 6t(1-t) (c2-c1) + 3t^2 (p3-c2), not normalised;      *)
(* here with both sides scaled by R^2.                                     *)
(***************************************************************************)
C9_VelocityIsDerivative ==
    HasVel /\ Returned =>
        LET d   == DescOf(Latest)
            k   == StepOf(d[2])
            vel == VelOf(Latest)
        IN  /\ RatIs(d[2], k, R)
            /\ \A c \in 1..2 :
                  /\ RatIs(vel[c], DerivativeScaled(Mat(it), k, c), R * R)
                  /\ d[1] < WindowCount =>
                        RatIs(vel[c], DerivativeScaled(Window(d[1]), k, c), R * R)

\* a velocity inside the second window that is longer than a unit vector
C9_Witness ==
    /\ HasVel /\ Returned /\ R = 3
    /\ DescOf(Latest) = <<1, Rat(1, 3)>>
    /\ WindowCount >= 2
    /\ Window(1)[2] # Window(1)[1] /\ Window(1)[3] # Window(1)[4]
    /\ VelOf(Latest)[1][1] > VelOf(Latest)[1][2]

(***************************************************************************)
(* C10: for every segment i the position sampled at t = 0 is the window's  *)
(* first anchor p0, the stored anchor p of topology element i.             *)
(***************************************************************************)
C10_StartIsAnchor ==
    HasPos /\ Returned =>
        LET d   == DescOf(Latest)
            i   == d[1]
            pos == PosOf(Latest)
        IN  d[2] = Rat(0, R) /\ i < WindowCount =>
                /\ pos = <<RInt(Window(i)[1][1]), RInt(Window(i)[1][2])>>
                /\ Window(i)[1] = Topology[i + 1].p
                /\ Topology[i + 1].p = curve.points[i + 1].p

\* the start of the third segment, which leaves its anchor with a non-zero c_out
C10_Witness ==
    /\ HasPos /\ Returned
    /\ DescOf(Latest) = <<2, Rat(0, 1)>>
    /\ WindowCount = 3
    /\ curve.points[3].c_out # Zeros
    /\ curve.points[3].p # curve.points[2].p
    /\ PosOf(Latest) = <<RInt(curve.points[3].p[1]), RInt(curve.points[3].p[2])>>

(***************************************************************************)
(* C11: consecutive segments share their anchor: the first control vector  *)
(* of window i+1 is the last control vector of window i, so the position   *)
(* at t = 0 of segment i+1 is the Bezier position of segment i at t = 1.   *)
(***************************************************************************)
C11_SegmentsShareAnchor ==
    /\ chain = "spline_windows" =>
          \A k \in 1..(Len(Yielded) - 1) : Yielded[k + 1][1] = Yielded[k][4]
    /\ HasPos /\ Returned =>
          LET d == DescOf(Latest)
          IN  d[2] = Rat(0, R) /\ d[1] >= 1 /\ d[1] < WindowCount =>
                  /\ Mat(it)[1] = Window(d[1] - 1)[4]
                  /\ PosOf(Latest) =
                        MatVec(MatMul(Window(d[1] - 1), P_COEFS), T4(RInt(1)))

\* the start of the second segment, away from the start of the first
C11_Witness ==
    /\ HasPos /\ Returned
    /\ DescOf(Latest) = <<1, Rat(0, 1)>>
    /\ WindowCount >= 2
    /\ Window(0)[1] # Window(0)[4]
    /\ PosOf(Latest) = <<RInt(Window(0)[4][1]), RInt(Window(0)[4][2])>>

\* segment i (0-based) joins two points all of whose control offsets are zero
StraightSegment(i) ==
    /\ i < WindowCount
    /\ \A q \in {Topology[i + 1], Topology[i + 2]} : q.c_in = Zeros /\ q.c_out = Zeros

(***************************************************************************)
(* C12 as stated: on a segment between two points without control offsets  *)
(* (window [p0, p0, p3, p3]) the position at t = k/R is the linear         *)
(* interpolation p0 + t (p3 - p0).                                         *)
(***************************************************************************)
C12_StraightIsLinear ==
    HasPos /\ Returned =>
        LET d   == DescOf(Latest)
            k   == StepOf(d[2])
            pos == PosOf(Latest)
            G   == Window(d[1])
        IN  StraightSegment(d[1]) =>
                \A c \in 1..2 :
                    RatIs(pos[c], R * G[1][c] + k * (G[4][c] - G[1][c]), R)

(***************************************************************************)
(* C12 amended: on such a segment the position at t = k/R lies on the      *)
(* straight line between the anchors, at p0 + s (p3 - p0) with             *)
(* s = 3 t^2 - 2 t^3; s = t exactly when t is 0, 1/2 or 1.                 *)
(***************************************************************************)
C12_StraightIsEased ==
    HasPos /\ Returned =>
        LET d   == DescOf(Latest)
            k   == StepOf(d[2])
            pos == PosOf(Latest)
            G   == Window(d[1])
        IN  StraightSegment(d[1]) =>
                /\ Mat(it) = <<G[1], G[1], G[4], G[4]>>
                /\ \A c \in 1..2 :
                      RatIs(pos[c],
                            R * R * R * G[1][c]
                              + (3 * k * k * R - 2 * k * k * k) * (G[4][c] - G[1][c]),
                            R * R * R)
                /\ 2 * k = R => \A c \in 1..2 : RatIs(pos[c], G[1][c] + G[4][c], 2)

\* a third of the way along a straight segment between two different corners
C12_Witness ==
    /\ HasPos /\ Returned /\ R = 3
    /\ StraightSegment(DescOf(Latest)[1])
    /\ DescOf(Latest)[2] = Rat(1, 3)
    /\ Window(DescOf(Latest)[1])[1] = <<1, 0>>
    /\ Window(DescOf(Latest)[1])[4] = <<1, 2>>
    /\ PosOf(Latest) = <<Rat(1, 1), Rat(14, 27)>>

\* what n calls of next() return, starting from the iterator x of chain ch
ChainNext(ch, x) ==
    CASE ch = "iter"            -> CurveIterNext(x)
      [] ch = "spline"          -> FlatCurveIterNext(x)
      [] ch = "spline_windows"  -> SplineWindowsNext(x)
      [] ch = "pos_vel_iter"    -> PosVelNext(x)
      [] OTHER                  -> SamplingNext(x)

RunAppend(s, r) == [st |-> r.st, out |-> Append(s.out, r.ret)]

RunStep(ch, s) == RunAppend(s, ChainNext(ch, s.st))

RECURSIVE Run(_, _, _)
Run(ch, x, n) ==
    IF n = 0 THEN [st |-> x, out |-> <<>>]
    ELSE RunStep(ch, Run(ch, x, n - 1))

\* the first n results of a fresh iterator of chain ch over the curve
Fresh(ch, n) == Run(ch, Build(curve, ch, R), n).out

(***************************************************************************)
(* C13: with_positions(), with_velocities() or both, in either order,      *)
(* leave the (segment_index, t) descriptors of the bare sampled stream     *)
(* untouched, in number, value and order; the position and the velocity    *)
(* that come with a descriptor are the same in every such chain, and       *)
(* pos_vel_iter yields (i, t, p, v) with these values.  The trace only      *)
(* grows, so the comparison is made once the caller has stopped pulling.   *)
(***************************************************************************)
C13_WrappersKeepSamples ==
    chain \in SamplingChains \ {"sampled"} /\ ~CanPull =>
        LET n    == Len(trace)
            bare == Fresh("sampled", n)
            P    == Fresh("with_positions", n)
            V    == Fresh("with_velocities", n)
        IN  \A k \in 1..n :
                /\ trace[k] = None <=> bare[k] = None
                /\ trace[k] # None =>
                      /\ DescOf(Unwrap(trace[k])) = Unwrap(bare[k])
                      /\ HasPos /\ chain # "with_positions" =>
                            PosOf(Unwrap(trace[k])) = Unwrap(P[k])[2]
                      /\ HasVel /\ chain # "with_velocities" =>
                            VelOf(Unwrap(trace[k])) = Unwrap(V[k])[2]
                      /\ chain = "pos_vel_iter" =>
                            Unwrap(trace[k]) = <<Unwrap(bare[k])[1], Unwrap(bare[k])[2],
                                                 Unwrap(P[k])[2], Unwrap(V[k])[2]>>

\* positions computed over velocities, on a segment where both are non-zero and differ
C13_Witness ==
    /\ chain = "with_velocities_with_positions" /\ ~CanPull /\ R = 2
    /\ WindowCount = 2 /\ Len(Yielded) = 4
    /\ DescOf(Yielded[4]) = <<1, Rat(1, 2)>>
    /\ PosOf(Yielded[4]) # VelOf(Yielded[4])
    /\ VelOf(Yielded[4]) # <<RInt(0), RInt(0)>>
    /\ PosOf(Yielded[4]) # <<RInt(0), RInt(0)>>

(***************************************************************************)
(* C14: for every RES >= 1 the sampled output (what comes before the first *)
(* None) is empty exactly when the curve is open with fewer than 2 points  *)
(* or closed with no point; any other curve gives samples, a closed curve  *)
(* of one point those of its single self-loop segment; every next()        *)
(* returns an Option, nothing else happens.                                *)
(***************************************************************************)
C14_EmptyOutput ==
    chain \in SamplingChains /\ trace # <<>> =>
        LET degenerate == \/ ~curve.is_closed /\ n_points < 2
                          \/ curve.is_closed /\ n_points = 0
        IN  /\ R >= 1
            /\ trace[1] = None <=> degenerate
            /\ Exhausted => (Len(Yielded) = 0 <=> degenerate)
            /\ \A k \in DOMAIN trace : trace[k] = None \/ Len(trace[k]) = 1
            /\ curve.is_closed /\ n_points = 1 /\ Exhausted =>
                  /\ Len(Yielded) = R
                  /\ \A k \in 1..R : DescOf(Yielded[k]) = <<0, Rat(k - 1, R)>>
                  /\ Window(0)[1] = Window(0)[4]

\* the self-loop of a closed curve of one point, sampled to the end
C14_Witness ==
    /\ chain \in SamplingChains /\ curve.is_closed /\ n_points = 1
    /\ R = 2 /\ Exhausted /\ Len(Yielded) = 2
    /\ curve.points[1].c_out # Zeros

(***************************************************************************)
(* C15: a sampling stage of resolution 0 is rejected at construction:      *)
(* sampled::<0>(), sampled_iter::<0>() and pos_vel_iter::<0>() give no     *)
(* iterator from which a sample can be pulled.                             *)
(***************************************************************************)
C15_ZeroResGivesNoSample ==
    ZeroRes => \A k \in DOMAIN trace : trace[k] = None

\* the derivative of window G vanishes at k/R
ZeroDerivative(G, k) == \A c \in 1..2 : DerivativeScaled(G, k, c) = 0

(***************************************************************************)
(* C16: a sample whose velocity is the zero vector is returned like any    *)
(* other, with velocity (0,0): it is not skipped, raises nothing, and the  *)
(* curve still gives its W x RES samples.                                  *)
(***************************************************************************)
C16_ZeroVelocityIsOrdinary ==
    HasVel =>
        /\ Returned /\ ~Exhausted =>
              LET k == Len(trace)
                  i == (k - 1) \div R
                  j == (k - 1) % R
              IN  /\ i < WindowCount
                  /\ DescOf(Latest) = <<i, Rat(j, R)>>
                  /\ ZeroDerivative(Window(i), j) =>
                        VelOf(Latest) = <<RInt(0), RInt(0)>>
        /\ Exhausted => Len(Yielded) = WindowCount * R

\* a traversal that met a zero velocity at the start of a segment between two
\* different points and went on to the end
C16_Witness ==
    /\ HasVel /\ Exhausted /\ R >= 2 /\ WindowCount >= 2
    /\ Len(Yielded) = WindowCount * R
    /\ \E k \in 1..(Len(Yielded) - 1) :
          /\ VelOf(Yielded[k]) = <<RInt(0), RInt(0)>>
          /\ VelOf(Yielded[k + 1]) # <<RInt(0), RInt(0)>>
          /\ DescOf(Yielded[k])[2] = Rat(0, 1)

\* len() of the iterator x of chain ch
ChainLen(ch, x) ==
    CASE ch = "iter"            -> CurveIterLen(x)
      [] ch = "spline"          -> FlatCurveIterLen(x)
      [] ch = "spline_windows"  -> SplineWindowsLen(x)
      [] OTHER                  -> SamplingLen(x)

\* len() of a fresh iterator of the chain over the curve
InitialLen ==
    ChainLen(chain, Build(curve, chain, IF chain \in SamplingChains THEN R ELSE 1))

(***************************************************************************)
(* C17: before anything is pulled, len() of a stage is the number of       *)
(* elements the stage goes on to yield: n (open) or n+1 (closed, n >= 1)   *)
(* for iter(), three times that for spline(), that minus 1 (0 below 2) for *)
(* spline_windows(), windows x RES for sampled::<RES>() and                *)
(* with_positions().                                                       *)
(***************************************************************************)
C17_InitialLen ==
    chain \in {"iter", "spline", "spline_windows", "sampled", "with_positions"} =>
        LET T == IF curve.is_closed /\ n_points >= 1 THEN n_points + 1 ELSE n_points
            W == IF T < 2 THEN 0 ELSE T - 1
            expected == CASE chain = "iter"           -> T
                          [] chain = "spline"         -> 3 * T
                          [] chain = "spline_windows" -> W
                          [] OTHER                    -> W * R
        IN  /\ trace = <<>> => ChainLen(chain, it) = expected
            /\ InitialLen = expected
            /\ Len(Yielded) <= InitialLen
            /\ Exhausted => Len(Yielded) = InitialLen

\* positions of a closed curve of three points at resolution 2, pulled to the end
C17_Witness ==
    /\ chain = "with_positions" /\ curve.is_closed /\ n_points = 3 /\ R = 2
    /\ Exhausted /\ InitialLen = 6 /\ Len(Yielded) = 6

\* the number of elements the calls made so far have returned
SomeCount == Len(trace) - NoneCount

(***************************************************************************)
(* C18: after any number of next() calls on CurveIter or FlatCurveIter -   *)
(* part-way through a point's triple, after the stored points are used up  *)
(* but before the closing repeat is served, after exhaustion - len() is    *)
(* the total number of elements the iterator yields minus the number       *)
(* already yielded.                                                        *)
(***************************************************************************)
C18_LenCountsDown ==
    chain \in {"iter", "spline"} =>
        LET total == IF chain = "iter" THEN TopoLen ELSE 3 * TopoLen
        IN  /\ ChainLen(chain, it) = total - SomeCount
            /\ SomeCount = Len(Yielded)
            /\ Exhausted => ChainLen(chain, it) = 0 /\ Len(Yielded) = total

\* a closed curve of two points, flattened: the stored points are used up, the
\* closing repeat is still to come, and the second point's triple is half served
C18_Witness ==
    /\ chain = "spline" /\ curve.is_closed /\ n_points = 2
    /\ Len(it.iter.iter) = 0 /\ IsSome(it.iter.first)
    /\ it.offset = 2
    /\ Len(trace) = 5 /\ FlatCurveIterLen(it) = 4

\* every one of the results o is an element
AllSome(o) == \A k \in DOMAIN o : o[k] # None

\* the windowing stage and the topology iterator inside the sampling chain
WindowsOf(x) == SampledOf(x).iter
TopologyOf(x) == SampledOf(x).iter.iter.iter

(***************************************************************************)
(* C19: the pipeline is pull-driven and single-pass.  When the sampling    *)
(* stage has returned its j-th sample (j >= 1, RES >= 1), exactly          *)
(* ceil(j/RES) windows have been pulled from the windowing stage and       *)
(* ceil(j/RES) + 1 topology elements from the curve: these iterators are   *)
(* where fresh ones are after that many next() calls, each of which gave   *)
(* an element.  Each stored point is read from the slice once, the closing *)
(* repeat comes from the remembered first point.                           *)
(***************************************************************************)
C19_PullDriven ==
    chain \in SamplingChains /\ Returned =>
        LET j  == SomeCount
            c  == (j + R - 1) \div R
            ws == Run("spline_windows", Build(curve, "spline_windows", 1), c)
            ts == Run("iter", CurveIter(curve), c + 1)
        IN  /\ AllSome(ws.out) /\ ws.st = WindowsOf(it)
            /\ AllSome(ts.out) /\ ts.st = TopologyOf(it)
            /\ n_points - Len(TopologyOf(it).iter) = (IF c + 1 <= n_points THEN c + 1
                                                       ELSE n_points)
            /\ c + 1 > n_points => ts.out[c + 1] = Some(curve.points[1])

\* what the calls made so far return when made on a fresh iterator of the same
\* chain over the curve as it is now
Replayed ==
    Run(chain, Build(curve, chain, IF chain \in SamplingChains THEN R ELSE 1),
        Len(trace)).out

RectangleOf ==
    [x      |-> curve.points[1].p[1],
     y      |-> curve.points[1].p[2],
     width  |-> curve.points[2].p[1] - curve.points[1].p[1],
     height |-> curve.points[3].p[2] - curve.points[1].p[2]]

(***************************************************************************)
(* C21: Curve::from(Rectangle {x, y, width, height}) is a closed curve of  *)
(* exactly four points with anchors (x, y), (x+width, y),                  *)
(* (x+width, y+height), (x, y+height) in this order and no control         *)
(* offsets; its pipeline has 4 windows, the fourth going from the          *)
(* bottom-left corner back to the top-left one, and 4 x RES samples.       *)
(***************************************************************************)
C21_RectangleCurve ==
    LET r == RectangleOf
    IN  /\ curve.is_closed /\ n_points = 4
        /\ r \in Rectangles
        /\ [k \in 1..4 |-> curve.points[k].p] =
              << <<r.x, r.y>>, <<r.x + r.width, r.y>>,
                 <<r.x + r.width, r.y + r.height>>, <<r.x, r.y + r.height>> >>
        /\ \A k \in 1..4 : curve.points[k].c_in = Zeros /\ curve.points[k].c_out = Zeros
        /\ chain = "spline_windows" /\ Exhausted =>
              /\ Len(Yielded) = 4
              /\ Yielded[4] = << <<r.x, r.y + r.height>>, <<r.x, r.y + r.height>>,
                                 <<r.x, r.y>>, <<r.x, r.y>> >>
        /\ chain \in SamplingChains /\ Exhausted => Len(Yielded) = 4 * R

\* the four windows of a rectangle with extent, complete
C21_Witness ==
    /\ chain = "spline_windows" /\ Exhausted /\ Len(Yielded) = 4
    /\ curve = Curve_from([x |-> 1, y |-> 2, width |-> 3, height |-> 2])
    /\ Yielded[4] = << <<1, 4>>, <<1, 4>>, <<1, 2>>, <<1, 2>> >>

\* the latest call was remove_editor(i) on an engine of n editors focused on f
Removed == call.op = "remove_editor"
RemovedIndex == call.arg
FocusBefore == call.before.focused_editor
EditorsBefore == call.before.editors

(***************************************************************************)
(* C22: remove_editor(i) with i other than the focused index f keeps the   *)
(* same editor focused: with f < i the focus index is unchanged, with      *)
(* f > i it becomes f - 1 (also when f was the last index), and either way *)
(* the focus refers to the editor it referred to before.                   *)
(***************************************************************************)
C22_RemoveOtherKeepsFocus ==
    Removed /\ call.outcome = "ok" /\ FocusBefore # None
            /\ Unwrap(FocusBefore) # RemovedIndex =>
        LET f == Unwrap(FocusBefore)
            i == RemovedIndex
        IN  /\ f < i => engine.focused_editor = Some(f)
            /\ f > i => engine.focused_editor = Some(f - 1)
            /\ focused_editor(engine).outcome = "ok"
            /\ focused_editor(engine).ret = focused_editor(call.before).ret

(***************************************************************************)
(* C23: remove_editor(i) with i the focused index and n editors before the *)
(* call: if i < n-1 the focus index stays i, the editor that followed      *)
(* being focused now; if i = n-1 and n >= 2 it becomes n-2; if n = 1 the   *)
(* focus is cleared.                                                       *)
(***************************************************************************)
C23_RemoveFocused ==
    Removed /\ call.outcome = "ok" /\ FocusBefore = Some(RemovedIndex) =>
        LET i == RemovedIndex
            n == Len(EditorsBefore)
        IN  /\ i < n - 1 =>
                  /\ engine.focused_editor = Some(i)
                  /\ focused_editor(engine).ret = Some(EditorsBefore[i + 2])
            /\ i = n - 1 /\ n >= 2 => engine.focused_editor = Some(n - 2)
            /\ n = 1 => engine.focused_editor = None

\* the focused last editor of three was removed
C23_Witness ==
    /\ Removed /\ call.outcome = "ok"
    /\ Len(EditorsBefore) = 3 /\ RemovedIndex = 2 /\ FocusBefore = Some(2)
    /\ engine.focused_editor = Some(1)
    /\ EditorsBefore[2] # EditorsBefore[3]

(***************************************************************************)
(* C24: focus_editor(idx) with idx out of bounds (idx >= the number of     *)
(* editors) panics and does not change the focus.                          *)
(***************************************************************************)
C24_FocusOutOfBoundsPanics ==
    call.op = "focus_editor" /\ call.arg >= Len(EditorsBefore) =>
        /\ call.outcome = "panic"
        /\ engine.focused_editor = FocusBefore

(***************************************************************************)
(* C25: remove_editor(index) with index >= the number of editors panics    *)
(* and leaves the editor list and the focus index as they were.            *)
(***************************************************************************)
C25_RemoveOutOfBoundsPanics ==
    Removed /\ RemovedIndex >= Len(EditorsBefore) =>
        /\ call.outcome = "panic"
        /\ engine.editors = EditorsBefore
        /\ engine.focused_editor = FocusBefore

\* remove_editor(2) on two editors, the second focused
C25_Witness ==
    /\ Removed /\ RemovedIndex = 2 /\ call.outcome = "panic"
    /\ Len(EditorsBefore) = 2 /\ FocusBefore = Some(1)
    /\ engine = call.before

(***************************************************************************)
(* C26: create_editor appends the editor after the existing ones, whose    *)
(* order is unchanged, and focuses the new editor's index whatever the     *)
(* focus was before, None included.                                        *)
(***************************************************************************)
C26_CreateAppendsAndFocuses ==
    call.op = "create_editor" =>
        /\ call.outcome = "ok"
        /\ Len(engine.editors) = Len(EditorsBefore) + 1
        /\ SubSeq(engine.editors, 1, Len(EditorsBefore)) = EditorsBefore
        /\ engine.editors[Len(engine.editors)].document.title = call.arg
        /\ engine.focused_editor = Some(Len(EditorsBefore))

\* a third editor was created while the first one was focused
C26_Witness ==
    /\ call.op = "create_editor"
    /\ Len(EditorsBefore) = 2 /\ FocusBefore = Some(0)
    /\ engine.focused_editor = Some(2)
    /\ engine.editors[3] # engine.editors[1]

\* the k-th value tab_iter() returned is the tab the order of tabs puts there
TabInOrder(k) ==
    LET n == Len(engine.editors)
    IN  IF k <= n
        THEN /\ trace[k] # None /\ trace[k] # Panic
             /\ Unwrap(trace[k]).data.kind = "Editor"
             /\ Unwrap(trace[k]).data.index = k - 1
             /\ Unwrap(trace[k]).data.editor = engine.editors[k]
        ELSE IF k = n + 1
        THEN trace[k] # None /\ trace[k] # Panic /\ Unwrap(trace[k]).data.kind = "New"
        ELSE IF k = n + 2
        THEN trace[k] # None /\ trace[k] # Panic /\ Unwrap(trace[k]).data.kind = "Open"
        ELSE trace[k] = None

(***************************************************************************)
(* C27: tab_iter() on an engine with n editors yields exactly n + 2 tabs   *)
(* and then None for good: one Editor tab per editor in editor order with  *)
(* index 0 .. n-1, then one New tab, then one Open tab; next() never       *)
(* panics.                                                                 *)
(***************************************************************************)
C27_TabOrder ==
    chain = "tab_iter" =>
        /\ \A k \in DOMAIN trace : TabInOrder(k)
        /\ ~CanPull => Len(trace) = Len(engine.editors) + 2 + MaxNone

\* the latest call was upgrade_current_style on an editor whose style was New
UpgradedNew ==
    call.op = "upgrade_current_style" /\ call.before.current_style.kind = "New"

\* the document's styles before that call, and the last one after it
StylesBefore == call.before.document.styles
LastStyle == editor.document.styles[Len(editor.document.styles)]

(***************************************************************************)
(* C28: upgrade_current_style called while current_style is New(s)        *)
(* appends exactly one style, s, to document.styles after the existing     *)
(* entries, which are unchanged; it leaves current_style Existing,         *)
(* referring to that new entry and no other, and returns that reference.   *)
(***************************************************************************)
C28_UpgradeNew ==
    UpgradedNew =>
        /\ call.outcome = "ok"
        /\ Len(editor.document.styles) = Len(StylesBefore) + 1
        /\ SubSeq(editor.document.styles, 1, Len(StylesBefore)) = StylesBefore
        /\ LastStyle.style = call.before.current_style.style
        /\ \A k \in DOMAIN StylesBefore : StylesBefore[k].arc # LastStyle.arc
        /\ editor.current_style = Existing(LastStyle.arc)
        /\ call.ret = LastStyle.arc

\* a second style was pushed, the outline style after the default one
C28_Witness ==
    /\ UpgradedNew
    /\ Len(StylesBefore) = 1 /\ StylesBefore[1].style = DefaultStyle
    /\ call.before.current_style = New("outline")
    /\ Len(editor.document.styles) = 2

(***************************************************************************)
(* C29: after any number k of next() calls on SplineWindows (0 <= k <= W,  *)
(* each of them returning a window) len() is W - k, the number of windows  *)
(* next() will still return.                                               *)
(***************************************************************************)
C29_WindowsLenCountsDown ==
    chain = "spline_windows" /\ ~Exhausted =>
        SplineWindowsLen(it) = WindowCount - Len(trace)

(***************************************************************************)
(* C30: after any number j of next() calls on Sampled<RES> or on Positions *)
(* wrapping it (0 <= j <= W x RES, each returning a sample) len() is       *)
(* W x RES - j, the number of samples still to be returned, and it is 0    *)
(* once the stream is exhausted.                                           *)
(***************************************************************************)
C30_SamplesLenCountsDown ==
    chain \in {"sampled", "with_positions"} =>
        /\ ~Exhausted => SamplingLen(it) = WindowCount * R - Len(trace)
        /\ Exhausted => SamplingLen(it) = 0

\* the stages below the sampling stage
TopologyChains == {"iter", "spline", "spline_windows"}

(***************************************************************************)
(* C31: once CurveIter, FlatCurveIter or SplineWindows has returned None,  *)
(* every later next() on it returns None, also for curves with 0 or 1      *)
(* topology elements, where the windowing stage runs out of input while it *)
(* fills its first window.                                                 *)
(***************************************************************************)
C31_FusedBelowSampling ==
    chain \in TopologyChains =>
        /\ \A j, k \in DOMAIN trace : j < k /\ trace[j] = None => trace[k] = None
        /\ Exhausted => ChainNext(chain, it).ret = None

\* one point, open: the windowing stage has the anchor and its out-control when
\* the input ends, and was called again after its None
C31_Witness ==
    /\ chain = "spline_windows" /\ TopoLen = 1
    /\ trace = <<None, None>>
    /\ ~it.is_first /\ it.buffer[4] = curve.points[1].p
    /\ it.iter.offset = 3 /\ it.iter.iter.iter = <<>>

\* a control offset no point of the pool has
Elsewhere == Vec(-3, 7)

\* the points with the first one's c_in replaced by v
WithFirstIn(ps, v) ==
    IF ps = <<>> THEN ps ELSE [ps EXCEPT ![1].c_in = v]

\* the points with the last one's c_out replaced by v
WithLastOut(ps, v) ==
    IF ps = <<>> THEN ps ELSE [ps EXCEPT ![Len(ps)].c_out = v]

\* the curve with the two end controls moved elsewhere
EndsMoved == Curve(WithLastOut(WithFirstIn(curve.points, Elsewhere), Elsewhere),
                   curve.is_closed)

\* the curve with the first point's c_in moved elsewhere
FirstInMoved == Curve(WithFirstIn(curve.points, Elsewhere), curve.is_closed)

\* what a fresh iterator of the chain in use over the curve c returns to as
\* many calls as were made
OutputOver(c) ==
    Run(chain, Build(c, chain, IF chain \in SamplingChains THEN R ELSE 1),
        Len(trace)).out

(***************************************************************************)
(* C32: for an open curve the output does not depend on the first point's  *)
(* c_in nor on the last point's c_out: the curve and the curve with both   *)
(* replaced yield identical windows, descriptors, positions and velocities *)
(* (so any two curves that differ only there do).  For a closed curve the  *)
(* first point's c_in does reach the windows, in the closing segment.  The *)
(* trace only grows, so the comparison is made once the caller has stopped *)
(* pulling.                                                                *)
(***************************************************************************)
C32_EndControlsUnused ==
    chain \notin {"iter", "spline"} /\ ~CanPull =>
        /\ ~curve.is_closed => trace = OutputOver(EndsMoved)
        /\ curve.is_closed /\ n_points >= 1 /\ chain = "spline_windows" =>
              /\ trace # OutputOver(FirstInMoved)
              /\ Yielded[WindowCount][3] =
                     VAdd(curve.points[1].p, curve.points[1].c_in)

\* an open curve of three points with both end controls non-zero, positions
\* and velocities sampled twice per segment to the end
C32_Witness ==
    /\ chain = "pos_vel_iter" /\ ~CanPull /\ R = 2
    /\ ~curve.is_closed /\ n_points = 3
    /\ curve.points[1].c_in # Zeros /\ curve.points[3].c_out # Zeros
    /\ EndsMoved # curve
    /\ Len(Yielded) = 4

(***************************************************************************)
(* C33: for every segment i the velocity sampled at t = 0 is exactly three *)
(* times the c_out offset of the segment's start point, whatever the end   *)
(* point's anchor and c_in are.                                            *)
(***************************************************************************)
C33_StartVelocity ==
    HasVel /\ Returned =>
        LET d   == DescOf(Latest)
            i   == d[1]
            vel == VelOf(Latest)
        IN  d[2] = Rat(0, R) /\ i < WindowCount =>
                /\ vel = <<RInt(3 * Topology[i + 1].c_out[1]),
                           RInt(3 * Topology[i + 1].c_out[2])>>
                /\ Topology[i + 1].c_out = curve.points[i + 1].c_out

\* the start of the second segment: its start point has a non-zero c_out, its
\* end point lies elsewhere and has a non-zero c_in
C33_Witness ==
    /\ chain = "with_velocities" /\ Returned
    /\ DescOf(Latest) = <<1, Rat(0, 1)>>
    /\ WindowCount >= 2
    /\ curve.points[2].c_out = Vec(10, 11)
    /\ Topology[3].p # curve.points[2].p /\ Topology[3].c_in # Zeros
    /\ VelOf(Latest) = <<RInt(30), RInt(33)>>

(***************************************************************************)
(* C34: after any sequence of create_editor, remove_editor(i) with i in    *)
(* bounds, unfocus_editor and focus_editor(idx) with idx in bounds, the    *)
(* focus index is None or less than the number of editors, so that         *)
(* focused_editor() does not index out of bounds, and it is None whenever  *)
(* there are no editors.                                                   *)
(***************************************************************************)
C34_FocusInBounds ==
    /\ engine.focused_editor # None =>
           Unwrap(engine.focused_editor) < Len(engine.editors)
    /\ engine.editors = <<>> => engine.focused_editor = None
    /\ focused_editor(engine).outcome = "ok"
    /\ call.op = "focused_editor" => call.outcome = "ok"
    /\ call.op \in {"remove_editor", "focus_editor"} => call.outcome = "ok"

\* the focused last editor of two was removed and the focus moved to the first
C34_Witness ==
    /\ call.op = "remove_editor" /\ call.arg = 1
    /\ Len(call.before.editors) = 2 /\ call.before.focused_editor = Some(1)
    /\ Len(engine.editors) = 1 /\ engine.focused_editor = Some(0)

====
